---- MODULE Spec2Model ----
(***************************************************************************)
(* Commission ledger of the showroom database: the cars, brokers and       *)
(* broker_commissions tables of 001_create_showroom_schema.sql, the        *)
(* trigger functions of the later migrations (one installed revision per   *)
(* behaviour), the payment trigger handle_car_sale, the update_broker_     *)
(* totals RPC and the markCommissionPaid handler of the Brokers page.      *)
(*                                                                         *)
(* Money is kept in cents (DECIMAL(15,2)); an unrounded numeric is kept in *)
(* units of 1/Fine cent.  SQL NULL is "null" for text/uuid columns and     *)
(* NullNum for numeric columns, NullDate for dates.                        *)
(***************************************************************************)
EXTENDS Integers, FiniteSets, Sequences, TLC

VARIABLES
    rev,          \* the installed revision of the trigger functions
    uniqueCarId,  \* whether broker_commissions.car_id carries a unique index
    cars,         \* cars table: id -> row
    brokers,      \* brokers table: id -> [total_commission_due, total_commission_paid]
    commissions,  \* broker_commissions table: set of rows
    nextId,       \* next primary key of broker_commissions
    today,        \* CURRENT_DATE / new Date()
    loading,      \* Brokers page, per session: useState(true)
    snapBrokers,  \* Brokers page, per session: the `brokers` React state
    snapComms,    \* Brokers page, per session: the `commissions` React state
    pc,           \* per session: position inside markCommissionPaid
    args,         \* per session: arguments of the last markCommissionPaid call, and
                  \* whether the row was unpaid in the table when it began (history)
    result,       \* per session: outcome of the last markCommissionPaid call
    lastOp,       \* the last operation performed (history)
    calcIn,       \* the cars row a commission computation is applied to
    calcOut,      \* the computation applied to calcIn and the numeric it returned
    chain,        \* the statements of the running request that are still to be
                  \* executed, innermost first, each with the tables whose row
                  \* triggers are running around it
    steps         \* number of operations still to be started (bounds the exploration)

vars == <<rev, uniqueCarId, cars, brokers, commissions, nextId, today,
          loading, snapBrokers, snapComms, pc, args, result, lastOp,
          calcIn, calcOut, chain, steps>>

dbVars == <<cars, brokers, commissions, nextId>>
uiVars == <<loading, snapBrokers, snapComms, pc, args, result>>

----------------------------------------------------------------------------
(* Bounds *)
NumCars == 2
MaxRecordId == 3
MaxDay == 2
MaxSteps == 3
MaxLedgerSteps == 4

(* Values *)
NULL == "null"
NullNum == 0 - 999999
NullDate == 0
Fine == 10000

CarIds == 1..NumCars
Brokers == {"b1", "b2"}
Sessions == {"s1", "s2"}
Roles == {"owner", "manager", "sales"}
Prices == {100000, 120000}
PaymentTypes == {"full_purchase", "hire_purchase_deposit", "hire_purchase_installment"}

\* (broker_commission_type, broker_commission_value) as the car form sends them:
\* both null when the value field is empty, else the chosen type and the value;
\* the field has no minimum, and the string "0" counts as filled in.
PolicyInputs == { <<NULL, NullNum>>, <<"fixed", 10000>>, <<"percentage", 1000>>,
                  <<"fixed", 0>> }

Revisions == { "definitive_fix", "part_005", "final_definitive_fix_12",
               "app_tsx", "part_003", "functions_fix_07",
               "security_hardening", "fix_18" }

----------------------------------------------------------------------------
(* numeric helpers *)

\* rounding of a numeric (in 1/d) to the nearest unit, half away from zero
RoundHalfAway(x, d) ==
    IF x >= 0 THEN (2 * x + d) \div (2 * d)
              ELSE 0 - ((2 * (0 - x) + d) \div (2 * d))

\* assignment of an unrounded numeric to a DECIMAL(15,2) column or variable
ToDecimal2(x) == IF x = NullNum THEN NullNum ELSE RoundHalfAway(x, Fine)

\* a DECIMAL(15,2) value read as an unrounded numeric
FromDecimal2(v) == IF v = NullNum THEN NullNum ELSE v * Fine

\* SQL `x > 0`, which is not true when x is NULL
GtZero(x) == x # NullNum /\ x > 0

----------------------------------------------------------------------------
(* calculate_broker_commission(uuid), one definition per revision.  The    *)
(* argument is the cars row the function selects; the result is an         *)
(* unrounded numeric in 1/Fine cent, or NullNum for SQL NULL.              *)

\* purchase_price * broker_commission_value / 100 as an exact numeric
Percentage(price, value) == price * value

\* 001_create_showroom_schema.sql: no null check, DECIMAL(15,2) local variable
calculate_broker_commission_001(car) ==
    LET raw == IF car.broker_commission_type = "fixed"
                 THEN FromDecimal2(car.broker_commission_value)
               ELSE IF car.broker_commission_type = "percentage"
                 THEN IF car.broker_commission_value = NullNum THEN NullNum
                      ELSE Percentage(car.purchase_price, car.broker_commission_value)
               ELSE 0
    IN FromDecimal2(ToDecimal2(raw))

\* 20250101000000_definitive_fix.sql, first script
calculate_broker_commission_definitive_fix(car) ==
    IF car.broker_id # NULL /\ car.broker_commission_value # NullNum
       /\ car.broker_commission_value > 0
    THEN IF car.broker_commission_type = "fixed"
           THEN FromDecimal2(car.broker_commission_value)
         ELSE IF car.broker_commission_type = "percentage"
           THEN Percentage(car.purchase_price, car.broker_commission_value)
         ELSE 0
    ELSE 0

\* 20250101000012_final_definitive_fix.sql: every type but percentage is fixed
calculate_broker_commission_12(car) ==
    IF car.broker_id = NULL \/ car.broker_commission_value = NullNum THEN 0
    ELSE IF car.broker_commission_type = "percentage"
      THEN Percentage(car.purchase_price, car.broker_commission_value)
    ELSE FromDecimal2(car.broker_commission_value)

\* unnamed/part_003
calculate_broker_commission_part_003(car) ==
    IF car.broker_commission_type = NULL \/ car.broker_commission_value = NullNum THEN 0
    ELSE IF car.broker_commission_type = "fixed"
      THEN FromDecimal2(car.broker_commission_value)
    ELSE IF car.broker_commission_type = "percentage"
      THEN Percentage(car.purchase_price, car.broker_commission_value)
    ELSE 0

\* 20250101000007_definitive_functions_fix.sql, second script
calculate_broker_commission_07(car) ==
    IF car.broker_id = NULL \/ car.broker_commission_value = NullNum THEN 0
    ELSE IF car.broker_commission_type = "fixed"
      THEN FromDecimal2(car.broker_commission_value)
    ELSE IF car.broker_commission_type = "percentage"
      THEN Percentage(car.purchase_price, car.broker_commission_value)
    ELSE 0

\* 20250101000000_final_security_hardening.sql: no null check, every type but
\* percentage is fixed
calculate_broker_commission_hardening(car) ==
    IF car.broker_commission_type = "percentage"
      THEN IF car.broker_commission_value = NullNum THEN NullNum
           ELSE Percentage(car.purchase_price, car.broker_commission_value)
    ELSE FromDecimal2(car.broker_commission_value)

\* 20250101000007_definitive_functions_fix.sql, first script
calculate_broker_commission_07_first(car) ==
    IF GtZero(car.broker_commission_value)
    THEN IF car.broker_commission_type = "fixed"
           THEN FromDecimal2(car.broker_commission_value)
         ELSE IF car.broker_commission_type = "percentage"
           THEN Percentage(car.purchase_price, car.broker_commission_value)
         ELSE 0
    ELSE 0

\* 20250101000011_definitive_security_and_dependency_fix.sql: no null check
calculate_broker_commission_11(car) ==
    IF car.broker_commission_type = "fixed"
      THEN FromDecimal2(car.broker_commission_value)
    ELSE IF car.broker_commission_type = "percentage"
      THEN IF car.broker_commission_value = NullNum THEN NullNum
           ELSE Percentage(car.purchase_price, car.broker_commission_value)
    ELSE 0

\* 20250523120000_final_security_and_datatable_updates.sql
calculate_broker_commission_20250523(car) ==
    IF car.broker_commission_type = NULL \/ car.broker_commission_value = NullNum THEN 0
    ELSE IF car.broker_commission_type = "fixed"
      THEN FromDecimal2(car.broker_commission_value)
    ELSE IF car.broker_commission_type = "percentage"
      THEN Percentage(car.purchase_price, car.broker_commission_value)
    ELSE 0

\* the function the name calculate_broker_commission(uuid) resolves to; a
\* revision that does not create one leaves the function of 001 in place
calculate_broker_commission(car) ==
    CASE rev = "definitive_fix"          -> calculate_broker_commission_definitive_fix(car)
      [] rev = "final_definitive_fix_12" -> calculate_broker_commission_12(car)
      [] rev = "part_003"                -> calculate_broker_commission_part_003(car)
      [] rev = "functions_fix_07"        -> calculate_broker_commission_07(car)
      [] rev = "security_hardening"      -> calculate_broker_commission_hardening(car)
      [] OTHER                           -> calculate_broker_commission_001(car)

----------------------------------------------------------------------------
(* SQL statements on broker_commissions and brokers.  A statement works on *)
(* db = [ok, comms, brokers, nextId] and returns it; ok = FALSE is a       *)
(* raised error, which aborts the enclosing transaction.  priv says        *)
(* whether the statement passes the "Only owners" row level security       *)
(* policies: the caller is an owner or the function is SECURITY DEFINER.   *)

Privileged(role, definer) == definer \/ role = "owner"

Abort(db) == [db EXCEPT !.ok = FALSE]

RecordsOfCar(comms, c) == { r \in comms : r.car_id = c }

\* INSERT INTO broker_commissions (broker_id, car_id, commission_amount, is_paid)
\*   VALUES (b, c, amount, false)
SqlInsertCommission(db, priv, b, c, amount) ==
    IF ~db.ok THEN db
    ELSE IF ~priv THEN Abort(db)                          \* policy check fails
    ELSE IF amount = NullNum THEN Abort(db)               \* NOT NULL column
    ELSE IF uniqueCarId /\ RecordsOfCar(db.comms, c) # {} THEN Abort(db)
    ELSE [db EXCEPT
            !.comms = @ \cup {[id |-> db.nextId, broker_id |-> b, car_id |-> c,
                               commission_amount |-> ToDecimal2(amount),
                               is_paid |-> FALSE, paid_date |-> NullDate]},
            !.nextId = @ + 1]

\* INSERT ... ON CONFLICT (car_id) DO UPDATE SET broker_id, commission_amount
\*   [, is_paid = false] [, paid_date = NULL]
SqlUpsertCommission(db, priv, b, c, amount, resetPaid, resetDate) ==
    IF ~db.ok THEN db
    ELSE IF ~uniqueCarId THEN Abort(db)       \* no constraint matches ON CONFLICT
    ELSE IF ~priv THEN Abort(db)
    ELSE IF amount = NullNum THEN Abort(db)
    ELSE IF RecordsOfCar(db.comms, c) = {}
      THEN SqlInsertCommission(db, priv, b, c, amount)
    ELSE [db EXCEPT !.comms =
            { IF r.car_id = c
                THEN [r EXCEPT !.broker_id = b,
                               !.commission_amount = ToDecimal2(amount),
                               !.is_paid = IF resetPaid THEN FALSE ELSE @,
                               !.paid_date = IF resetDate THEN NullDate ELSE @]
                ELSE r : r \in @ }]

\* DELETE FROM broker_commissions WHERE car_id = c [AND is_paid = false]
SqlDeleteCommissions(db, priv, c, onlyUnpaid) ==
    IF ~db.ok THEN db
    ELSE IF ~priv THEN db                     \* no row is visible
    ELSE [db EXCEPT !.comms =
            { r \in @ : ~(r.car_id = c /\ (onlyUnpaid => ~r.is_paid)) }]

\* UPDATE brokers SET total_commission_due = total_commission_due + amount
\*   WHERE id = b
SqlAddCommissionDue(db, priv, b, amount) ==
    IF ~db.ok THEN db
    ELSE IF ~priv \/ b = NULL THEN db
    ELSE [db EXCEPT !.brokers[b].total_commission_due =
            ToDecimal2(FromDecimal2(@) + amount)]

----------------------------------------------------------------------------
(* update_broker_commissions_on_car_update(), one definition per revision. *)
(* old and new are the OLD and NEW rows of the trigger (OLD is all null in *)
(* an INSERT trigger), c is NEW.id, tgop is TG_OP.                         *)

NullRow == [purchase_price |-> NullNum, broker_id |-> NULL,
            broker_commission_type |-> NULL, broker_commission_value |-> NullNum,
            status |-> NULL]

\* OLD.x IS DISTINCT FROM NEW.x over the four commission columns
CommissionColumnsDiffer(old, new) ==
    \/ old.broker_id # new.broker_id
    \/ old.broker_commission_type # new.broker_commission_type
    \/ old.broker_commission_value # new.broker_commission_value
    \/ old.purchase_price # new.purchase_price

\* the inline computation of part_005 and of the App.tsx script
InlineCommission_fixed_only(new) == FromDecimal2(new.broker_commission_value)

InlineCommission(new) ==
    IF new.broker_commission_type = "percentage"
      THEN Percentage(new.purchase_price, new.broker_commission_value)
      ELSE FromDecimal2(new.broker_commission_value)

\* 20250101000000_definitive_fix.sql:86-114
recorder_definitive_fix(db, priv, tgop, old, new, c) ==
    LET v_commission_amount == calculate_broker_commission(new) IN
    IF new.broker_id # NULL /\ GtZero(v_commission_amount)
      THEN SqlUpsertCommission(db, priv, new.broker_id, c, v_commission_amount, TRUE, TRUE)
      ELSE SqlDeleteCommissions(db, priv, c, FALSE)

\* unnamed/part_005:128-161
recorder_part_005(db, priv, tgop, old, new, c) ==
    IF new.broker_id # NULL /\ GtZero(new.broker_commission_value)
      THEN SqlUpsertCommission(db, priv, new.broker_id, c, InlineCommission(new), TRUE, TRUE)
      ELSE SqlDeleteCommissions(db, priv, c, FALSE)

\* 20250101000012_final_definitive_fix.sql:91-124
recorder_12(db, priv, tgop, old, new, c) ==
    IF (tgop = "INSERT" \/ (tgop = "UPDATE" /\ CommissionColumnsDiffer(old, new)))
       /\ new.broker_id # NULL
    THEN LET v_commission_amount == calculate_broker_commission(new) IN
         IF GtZero(v_commission_amount)
           THEN SqlUpsertCommission(db, priv, new.broker_id, c, v_commission_amount, TRUE, FALSE)
           ELSE SqlDeleteCommissions(db, priv, c, FALSE)
    ELSE db

\* src/App.tsx:229-259
recorder_app_tsx(db, priv, tgop, old, new, c) ==
    IF CommissionColumnsDiffer(old, new)
    THEN LET d == SqlDeleteCommissions(db, priv, c, TRUE) IN
         IF new.status = "sold" /\ new.broker_id # NULL
            /\ new.broker_commission_value # NullNum
           THEN SqlInsertCommission(d, priv, new.broker_id, c, InlineCommission(new))
           ELSE d
    ELSE db

\* unnamed/part_003:167-194 without its test that a commission column changed
recorder_part_003_unguarded(db, priv, tgop, old, new, c) ==
    IF new.broker_id # NULL
    THEN LET v_commission_amount == calculate_broker_commission(new)
             d == SqlDeleteCommissions(db, priv, c, FALSE)
         IN IF GtZero(v_commission_amount)
              THEN SqlInsertCommission(d, priv, new.broker_id, c, v_commission_amount)
              ELSE d
    ELSE IF old.broker_id # NULL
      THEN SqlDeleteCommissions(db, priv, c, FALSE)
    ELSE db

\* unnamed/part_003:167-194
recorder_part_003(db, priv, tgop, old, new, c) ==
    IF new.broker_id # NULL
       /\ (\/ old.broker_id # new.broker_id
           \/ old.broker_commission_value # new.broker_commission_value
           \/ old.purchase_price # new.purchase_price)
    THEN LET v_commission_amount == calculate_broker_commission(new)
             d == SqlDeleteCommissions(db, priv, c, FALSE)
         IN IF GtZero(v_commission_amount)
              THEN SqlInsertCommission(d, priv, new.broker_id, c, v_commission_amount)
              ELSE d
    ELSE IF new.broker_id = NULL /\ old.broker_id # NULL
      THEN SqlDeleteCommissions(db, priv, c, FALSE)
    ELSE db

\* 20250101000007_definitive_functions_fix.sql:273-304
recorder_07(db, priv, tgop, old, new, c) ==
    IF \/ (tgop = "UPDATE" /\ new.status = "sold" /\ old.status # "sold")
       \/ new.broker_id # old.broker_id
    THEN IF new.broker_id # NULL /\ new.broker_commission_value # NullNum
           THEN LET commission_val == calculate_broker_commission(new) IN
                IF GtZero(commission_val)
                  THEN SqlUpsertCommission(db, priv, new.broker_id, c, commission_val, TRUE, TRUE)
                  ELSE db
           ELSE SqlDeleteCommissions(db, priv, c, FALSE)
    ELSE db

\* 20250101000000_final_security_hardening.sql:108-124
update_broker_commissions_on_car_insert(db, priv, new, c) ==
    IF new.broker_id # NULL /\ new.broker_commission_value # NullNum
      THEN SqlInsertCommission(db, priv, new.broker_id, c,
                               calculate_broker_commission(new))
      ELSE db

\* 20250101000000_final_security_hardening.sql:130-151, and :108-124 on INSERT
recorder_hardening(db, priv, tgop, old, new, c) ==
    IF tgop = "INSERT" THEN update_broker_commissions_on_car_insert(db, priv, new, c)
    ELSE IF \/ old.broker_id # new.broker_id
            \/ old.broker_commission_value # new.broker_commission_value
    THEN LET d == SqlDeleteCommissions(db, priv, c, FALSE) IN
         IF new.broker_id # NULL /\ new.broker_commission_value # NullNum
           THEN SqlInsertCommission(d, priv, new.broker_id, c,
                                    calculate_broker_commission(new))
           ELSE d
    ELSE db

\* 20250101000018_definitive_security_and_dependency_fix.sql:104-136
recorder_18(db, priv, tgop, old, new, c) ==
    IF \/ tgop = "INSERT"
       \/ (tgop = "UPDATE" /\ (\/ old.broker_id # new.broker_id
                                \/ old.broker_commission_value # new.broker_commission_value))
    THEN LET d == IF tgop = "UPDATE" THEN SqlDeleteCommissions(db, priv, c, FALSE)
                                     ELSE db
         IN IF new.broker_id # NULL /\ GtZero(new.broker_commission_value)
              THEN SqlInsertCommission(d, priv, new.broker_id, c, InlineCommission(new))
              ELSE d
    ELSE db

\* whether the revision's trigger function is SECURITY DEFINER
RecorderIsDefiner == rev = "functions_fix_07"

\* CREATE TRIGGER ... ON public.cars of the revision: the events and the WHEN
\* clause under which the trigger function runs
CarTriggerFires(tgop, old, new) ==
    CASE rev = "definitive_fix" ->
            tgop = "INSERT" \/ CommissionColumnsDiffer(old, new)
      [] rev = "part_005" -> TRUE
      [] rev = "final_definitive_fix_12" -> TRUE
      [] rev = "app_tsx" -> tgop = "UPDATE"
      [] rev = "part_003" -> tgop = "UPDATE"
      [] rev = "functions_fix_07" ->
            tgop = "UPDATE" /\ (old.status # new.status \/ old.broker_id # new.broker_id)
      [] rev \in {"security_hardening", "fix_18"} ->
            \/ tgop = "INSERT"
            \/ old.broker_id # new.broker_id
            \/ old.broker_commission_value # new.broker_commission_value

update_broker_commissions_on_car_update(db, role, tgop, old, new, c) ==
    LET priv == Privileged(role, RecorderIsDefiner) IN
    IF ~db.ok \/ ~CarTriggerFires(tgop, old, new) THEN db
    ELSE CASE rev = "definitive_fix"          -> recorder_definitive_fix(db, priv, tgop, old, new, c)
           [] rev = "part_005"                -> recorder_part_005(db, priv, tgop, old, new, c)
           [] rev = "final_definitive_fix_12" -> recorder_12(db, priv, tgop, old, new, c)
           [] rev = "app_tsx"                 -> recorder_app_tsx(db, priv, tgop, old, new, c)
           [] rev = "part_003"                -> recorder_part_003(db, priv, tgop, old, new, c)
           [] rev = "functions_fix_07"        -> recorder_07(db, priv, tgop, old, new, c)
           [] rev = "security_hardening"      -> recorder_hardening(db, priv, tgop, old, new, c)
           [] rev = "fix_18"                  -> recorder_18(db, priv, tgop, old, new, c)

----------------------------------------------------------------------------
(* update_broker_totals(p_broker_id, p_amount): the RPC of every revision  *)

\* SECURITY DEFINER in 20250101000007_definitive_functions_fix.sql only
TotalsRpcIsDefiner == rev = "functions_fix_07"

update_broker_totals(db, role, p_broker_id, p_amount) ==
    IF ~db.ok THEN db
    ELSE IF ~Privileged(role, TotalsRpcIsDefiner) THEN db     \* no row is visible
    ELSE [db EXCEPT
            !.brokers[p_broker_id].total_commission_due = @ - p_amount,
            !.brokers[p_broker_id].total_commission_paid = @ + p_amount]

----------------------------------------------------------------------------
(* handle_car_sale(): AFTER INSERT ON payments, 001:343-376.  Runs with    *)
(* the caller's rights.  db carries the cars table as well.                *)

\* the "Owners and managers can update cars" policy
MayUpdateCars(role) == role \in {"owner", "manager"}

\* UPDATE cars SET status = 'sold' WHERE id = c, with the cars triggers
SqlMarkCarSold(db, role, c) ==
    IF ~db.ok THEN db
    ELSE IF c \notin DOMAIN db.cars \/ ~MayUpdateCars(role) THEN db
    ELSE LET old == db.cars[c]
             new == [old EXCEPT !.status = "sold"]
         IN update_broker_commissions_on_car_update(
                [db EXCEPT !.cars[c] = new], role, "UPDATE", old, new, c)

handle_car_sale(db, role, payment_type, c) ==
    IF payment_type = "full_purchase"
    THEN LET d == SqlMarkCarSold(db, role, c) IN
         IF ~d.ok THEN d
         ELSE LET row == IF c \in DOMAIN d.cars THEN d.cars[c] ELSE NullRow
                  commission_amount ==
                      FromDecimal2(ToDecimal2(calculate_broker_commission(row)))
              IN IF GtZero(commission_amount)
                 THEN LET i == IF row.broker_id # NULL
                                 THEN SqlInsertCommission(d, role = "owner",
                                          row.broker_id, c, commission_amount)
                                 ELSE d
                      IN SqlAddCommissionDue(i, role = "owner", row.broker_id,
                                             commission_amount)
                 ELSE d
    ELSE db

----------------------------------------------------------------------------
(* State *)

Db == [ok |-> TRUE, cars |-> cars, comms |-> commissions, brokers |-> brokers,
       nextId |-> nextId]

\* writes that stay although the statement raised an error
Commit_without_rollback(db) ==
    /\ db.nextId <= MaxRecordId + 1
    /\ cars' = db.cars
    /\ commissions' = db.comms
    /\ brokers' = db.brokers
    /\ nextId' = db.nextId

\* a transaction commits its writes, or leaves the tables alone when aborted
Commit(db) ==
    /\ db.nextId <= MaxRecordId + 1
    /\ IF db.ok
         THEN /\ cars' = db.cars
              /\ commissions' = db.comms
              /\ brokers' = db.brokers
              /\ nextId' = db.nextId
         ELSE UNCHANGED dbVars

\* an operation is started: one less remains, and it is the last one performed
Step(op) ==
    /\ steps > 0
    /\ steps' = steps - 1
    /\ lastOp' = op

NoOp == [op |-> "none", car |-> 0, role |-> "owner", ok |-> TRUE]

\* 001 creates broker_commissions without a unique constraint on car_id; the
\* revisions whose statements say ON CONFLICT (car_id) need one to run at all
UsesOnConflict(r) ==
    r \in {"definitive_fix", "part_005", "final_definitive_fix_12", "functions_fix_07"}

InitDb ==
    /\ rev \in Revisions
    /\ uniqueCarId \in IF UsesOnConflict(rev) THEN BOOLEAN ELSE {FALSE}
    /\ cars = << >>
    /\ brokers = [b \in Brokers |-> [total_commission_due |-> 0,
                                     total_commission_paid |-> 0]]
    /\ commissions = {}
    /\ nextId = 1
    /\ today = 1
    /\ loading = [s \in Sessions |-> TRUE]
    /\ snapBrokers = [s \in Sessions |-> brokers]
    /\ snapComms = [s \in Sessions |-> {}]
    /\ pc = [s \in Sessions |-> "idle"]
    /\ args = [s \in Sessions |-> [id |-> 0, broker_id |-> NULL, amount |-> 0, fresh |-> FALSE]]
    /\ result = [s \in Sessions |-> "none"]
    /\ lastOp = NoOp

NotCalculated == [by |-> "none", amount |-> 0]

Init ==
    /\ InitDb
    /\ calcIn = NullRow
    /\ calcOut = NotCalculated
    /\ chain = << >>
    /\ steps = MaxSteps

InitLedger ==
    /\ InitDb
    /\ calcIn = NullRow
    /\ calcOut = NotCalculated
    /\ chain = << >>
    /\ steps = MaxLedgerSteps

----------------------------------------------------------------------------
(* Cars page: handleSubmit, Cars.tsx:69-109 *)

CarData(price, b, pol) ==
    [purchase_price |-> price, broker_id |-> b,
     broker_commission_type |-> pol[1], broker_commission_value |-> pol[2]]

\* an UPDATE that also writes the status column
SetCarData_with_status(old, d) ==
    [old EXCEPT !.purchase_price = d.purchase_price,
                !.broker_id = d.broker_id,
                !.broker_commission_type = d.broker_commission_type,
                !.broker_commission_value = d.broker_commission_value,
                !.status = "available"]

\* UPDATE cars SET <the columns of carData>: status is not among them
SetCarData(old, d) ==
    [old EXCEPT !.purchase_price = d.purchase_price,
                !.broker_id = d.broker_id,
                !.broker_commission_type = d.broker_commission_type,
                !.broker_commission_value = d.broker_commission_value]

\* supabase.from('cars').insert([carData]) and the AFTER INSERT trigger
CarInsert(role, c, price, b, pol) ==
    /\ MayUpdateCars(role)             \* "Owners and managers can insert cars"
    /\ c \notin DOMAIN cars
    /\ LET d == CarData(price, b, pol)
           new == [purchase_price |-> d.purchase_price, broker_id |-> d.broker_id,
                   broker_commission_type |-> d.broker_commission_type,
                   broker_commission_value |-> d.broker_commission_value,
                   status |-> "available"]
           db0 == [Db EXCEPT !.cars = [x \in DOMAIN cars \cup {c} |->
                                          IF x = c THEN new ELSE cars[x]]]
           db1 == update_broker_commissions_on_car_update(db0, role, "INSERT",
                                                          NullRow, new, c)
       IN /\ Commit(db1)
          /\ Step([op |-> "car_insert", car |-> c, role |-> role, ok |-> db1.ok])
    /\ UNCHANGED <<chain, calcIn, calcOut, rev, uniqueCarId, today, uiVars>>

\* supabase.from('cars').update(carData).eq('id', editingCar.id) and the
\* AFTER UPDATE trigger; carData has no status
CarUpdate(role, c, price, b, pol) ==
    /\ MayUpdateCars(role)
    /\ c \in DOMAIN cars
    /\ LET d == CarData(price, b, pol)
           old == cars[c]
           new == SetCarData(old, d)
           db0 == [Db EXCEPT !.cars[c] = new]
           db1 == update_broker_commissions_on_car_update(db0, role, "UPDATE",
                                                          old, new, c)
       IN /\ Commit(db1)
          /\ Step([op |-> "car_update", car |-> c, role |-> role, ok |-> db1.ok])
    /\ UNCHANGED <<chain, calcIn, calcOut, rev, uniqueCarId, today, uiVars>>

\* Payments page: supabase.from('payments').insert([paymentData]); c = 0 is
\* a payment without a car
Payment(role, c, payment_type) ==
    /\ c \in DOMAIN cars \cup {0}
    /\ LET db1 == handle_car_sale(Db, role, payment_type, c)
       IN /\ Commit(db1)
          /\ Step([op |-> payment_type, car |-> c, role |-> role, ok |-> db1.ok])
    /\ UNCHANGED <<chain, calcIn, calcOut, rev, uniqueCarId, today, uiVars>>

----------------------------------------------------------------------------
(* Brokers page of an owner's session, Brokers.tsx *)

\* fetchBrokers, Brokers.tsx:25-39
FetchBrokers(s) ==
    /\ snapBrokers' = [snapBrokers EXCEPT ![s] = brokers]
    /\ loading' = [loading EXCEPT ![s] = FALSE]
    /\ snapBrokers'[s] # snapBrokers[s] \/ loading[s]
    /\ UNCHANGED <<chain, calcIn, calcOut, rev, uniqueCarId, dbVars, today, snapComms, pc, args, result,
                   lastOp, steps>>

\* fetchCommissions, Brokers.tsx:41-57
FetchCommissions(s) ==
    /\ snapComms' = [snapComms EXCEPT ![s] = commissions]
    /\ snapComms'[s] # snapComms[s]
    /\ UNCHANGED <<chain, calcIn, calcOut, rev, uniqueCarId, dbVars, today, loading, snapBrokers, pc, args,
                   result, lastOp, steps>>

\* markCommissionPaid, Brokers.tsx:108-119: the Mark Paid button of a row the
\* page shows as pending; first request, UPDATE broker_commissions ... WHERE id
MarkPaidRecord(s, r) ==
    /\ pc[s] = "idle"
    /\ ~loading[s]
    /\ r \in snapComms[s]
    /\ ~r.is_paid
    /\ commissions' = { IF x.id = r.id
                          THEN [x EXCEPT !.is_paid = TRUE, !.paid_date = today]
                          ELSE x : x \in commissions }
    /\ args' = [args EXCEPT ![s] =
          [id |-> r.id, broker_id |-> r.broker_id, amount |-> r.commission_amount,
           fresh |-> \E x \in commissions : x.id = r.id /\ ~x.is_paid]]
    /\ pc' = [pc EXCEPT ![s] = "totals"]
    /\ Step([op |-> "mark_record", car |-> r.car_id, role |-> "owner", ok |-> TRUE])
    /\ UNCHANGED <<chain, calcIn, calcOut, rev, uniqueCarId, cars, brokers, nextId, today, loading,
                   snapBrokers, snapComms, result>>

\* the first request fails: commissionError is thrown and alerted
MarkPaidRecordFail(s, r) ==
    /\ pc[s] = "idle"
    /\ ~loading[s]
    /\ r \in snapComms[s]
    /\ ~r.is_paid
    /\ result' = [result EXCEPT ![s] = "commissionError"]
    /\ Step([op |-> "mark_record", car |-> r.car_id, role |-> "owner", ok |-> FALSE])
    /\ UNCHANGED <<chain, calcIn, calcOut, rev, uniqueCarId, dbVars, today, loading, snapBrokers,
                   snapComms, pc, args>>

\* markCommissionPaid, Brokers.tsx:121-133: second request, UPDATE brokers
\* with totals computed from the page's `brokers` state
MarkPaidTotals(s) ==
    /\ pc[s] = "totals"
    /\ LET b == args[s].broker_id
           seen == snapBrokers[s][b]
       IN brokers' = [brokers EXCEPT ![b] =
              [total_commission_paid |-> seen.total_commission_paid + args[s].amount,
               total_commission_due  |-> seen.total_commission_due - args[s].amount]]
    /\ pc' = [pc EXCEPT ![s] = "idle"]
    /\ result' = [result EXCEPT ![s] = "ok"]
    /\ lastOp' = [op |-> "mark_totals", car |-> 0, role |-> "owner", ok |-> TRUE]
    /\ UNCHANGED steps
    /\ UNCHANGED <<chain, calcIn, calcOut, rev, uniqueCarId, cars, commissions, nextId, today, loading,
                   snapBrokers, snapComms, args>>

\* the second request fails: brokerError is thrown and alerted
MarkPaidTotalsFail(s) ==
    /\ pc[s] = "totals"
    /\ pc' = [pc EXCEPT ![s] = "idle"]
    /\ result' = [result EXCEPT ![s] = "brokerError"]
    /\ lastOp' = [op |-> "mark_totals", car |-> 0, role |-> "owner", ok |-> FALSE]
    /\ UNCHANGED steps
    /\ UNCHANGED <<chain, calcIn, calcOut, rev, uniqueCarId, dbVars, today, loading, snapBrokers,
                   snapComms, args>>

----------------------------------------------------------------------------
(* Requests of any authenticated caller against the API *)

\* supabase.rpc('update_broker_totals', {p_broker_id, p_amount})
RpcUpdateBrokerTotals(role, b, amount) ==
    /\ LET db1 == update_broker_totals(Db, role, b, amount)
       IN Commit(db1)
    /\ Step([op |-> "rpc_totals", car |-> 0, role |-> role, ok |-> TRUE])
    /\ UNCHANGED <<chain, calcIn, calcOut, rev, uniqueCarId, today, uiVars>>

\* the two updates of markCommissionPaid sent by a caller who is not an owner:
\* the "Only owners" policies leave no row visible to either UPDATE
MarkPaidByNonOwner(role, id, b, amount) ==
    /\ role # "owner"
    /\ commissions' = { IF x.id = id /\ role = "owner"
                          THEN [x EXCEPT !.is_paid = TRUE, !.paid_date = today]
                          ELSE x : x \in commissions }
    /\ brokers' = [brokers EXCEPT ![b] =
          IF role = "owner"
            THEN [total_commission_paid |-> @.total_commission_paid + amount,
                  total_commission_due |-> @.total_commission_due - amount]
            ELSE @]
    /\ Step([op |-> "mark_non_owner", car |-> 0, role |-> role, ok |-> TRUE])
    /\ UNCHANGED <<chain, calcIn, calcOut, rev, uniqueCarId, cars, nextId, today, uiVars>>

\* the date advances
Tick ==
    /\ today < MaxDay
    /\ today' = today + 1
    /\ Step([op |-> "tick", car |-> 0, role |-> "owner", ok |-> TRUE])
    /\ UNCHANGED <<chain, calcIn, calcOut, rev, uniqueCarId, dbVars, uiVars>>

----------------------------------------------------------------------------
(* Spec: one car and one owner session at the Brokers page; every value    *)
(* the car form can send, by an owner or a manager; payments and API       *)
(* requests by any role.                                                   *)

LedgerBroker == "b1"
LedgerPrices == { 120000 }
LedgerPolicies == { <<"fixed", 10000>>, <<"percentage", 1000>> }
RpcAmounts == { 10000 }

RecorderCars == {1}
RecorderSessions == {"s1"}

Next ==
    \/ \E role \in Roles, c \in RecorderCars, price \in Prices,
          b \in Brokers \cup {NULL}, pol \in PolicyInputs :
            CarInsert(role, c, price, b, pol)
    \/ \E role \in Roles, c \in RecorderCars, price \in Prices,
          b \in Brokers \cup {NULL}, pol \in PolicyInputs :
            CarUpdate(role, c, price, b, pol)
    \/ \E role \in Roles, c \in RecorderCars \cup {0}, t \in PaymentTypes :
            Payment(role, c, t)
    \/ \E s \in RecorderSessions : FetchBrokers(s)
    \/ \E s \in RecorderSessions : FetchCommissions(s)
    \/ \E s \in RecorderSessions : \E r \in snapComms[s] : MarkPaidRecord(s, r)
    \/ \E s \in RecorderSessions : MarkPaidTotals(s)
    \/ \E s \in RecorderSessions : MarkPaidTotalsFail(s)
    \/ \E role \in Roles, amount \in RpcAmounts :
            RpcUpdateBrokerTotals(role, LedgerBroker, amount)
    \/ \E role \in Roles, r \in commissions :
            MarkPaidByNonOwner(role, r.id, r.broker_id, r.commission_amount)

Spec == Init /\ [][Next]_vars

----------------------------------------------------------------------------
(* SpecLedger: NumCars cars of one broker entered by an owner, two owner   *)
(* sessions at the Brokers page.                                           *)


NextLedger ==
    \/ \E c \in CarIds, price \in LedgerPrices, pol \in LedgerPolicies :
            CarInsert("owner", c, price, LedgerBroker, pol)
    \/ \E s \in Sessions : FetchBrokers(s)
    \/ \E s \in Sessions : FetchCommissions(s)
    \/ \E s \in Sessions : \E r \in snapComms[s] : MarkPaidRecord(s, r)
    \/ \E s \in Sessions : \E r \in snapComms[s] : MarkPaidRecordFail(s, r)
    \/ \E s \in Sessions : MarkPaidTotals(s)
    \/ \E s \in Sessions : MarkPaidTotalsFail(s)
    \/ Tick

SpecLedger == InitLedger /\ [][NextLedger]_vars

----------------------------------------------------------------------------
(* SpecCalc: the commission computations as functions of one cars row.     *)
(* Amounts are in cents and percentages in 1/100 percent, so the whole     *)
(* numbers of the form are the multiples of 100; price * value stays below *)
(* 2^31.                                                                   *)

CalcPrices == { 0, 100, 500000 }
CalcValues == { NullNum, 0 - 100, 0, 100, 500, 2000 }
CalcRows ==
    [purchase_price : CalcPrices, broker_id : {NULL, LedgerBroker},
     broker_commission_type : {NULL, "fixed", "percentage"},
     broker_commission_value : CalcValues, status : {"available"}]

\* the versions of calculate_broker_commission(uuid) that no modelled revision
\* leaves installed
OtherCalculators == { "functions_fix_07_first", "fix_11", "updates_20250523" }

OtherCalculator(v, car) ==
    CASE v = "functions_fix_07_first" -> calculate_broker_commission_07_first(car)
      [] v = "fix_11"                 -> calculate_broker_commission_11(car)
      [] v = "updates_20250523"       -> calculate_broker_commission_20250523(car)

InitCalc ==
    /\ InitDb
    /\ calcIn \in CalcRows
    /\ calcOut = NotCalculated
    /\ chain = << >>
    /\ steps = 0

\* SELECT calculate_broker_commission(id) in the revision in place
CalculateInstalled ==
    /\ calcOut' = [by |-> rev, amount |-> calculate_broker_commission(calcIn)]
    /\ UNCHANGED <<chain, rev, uniqueCarId, dbVars, today, uiVars, lastOp, calcIn, steps>>

\* the computation written inside the trigger function, which every trigger
\* reaches only for a car with a broker and a commission value
CalculateInline ==
    /\ calcIn.broker_id # NULL
    /\ calcIn.broker_commission_value # NullNum
    /\ calcOut' = [by |-> "inline", amount |-> InlineCommission(calcIn)]
    /\ UNCHANGED <<chain, rev, uniqueCarId, dbVars, today, uiVars, lastOp, calcIn, steps>>

CalculateOther(v) ==
    /\ calcOut' = [by |-> v, amount |-> OtherCalculator(v, calcIn)]
    /\ UNCHANGED <<chain, rev, uniqueCarId, dbVars, today, uiVars, lastOp, calcIn, steps>>

NextCalc ==
    \/ CalculateInstalled
    \/ CalculateInline
    \/ \E v \in OtherCalculators : CalculateOther(v)

SpecCalc == InitCalc /\ [][NextCalc]_vars

----------------------------------------------------------------------------
(* SpecTriggers: the row triggers a request sets off.  A statement is     *)
(* [table, tgop, path]: path is the set of tables whose triggers are       *)
(* running when the statement is issued.  The data a trigger tests (WHEN   *)
(* clauses, IF conditions) is left open: a trigger may issue any part of   *)
(* the statements its body contains.                                       *)

MaxDepth == 4

\* the statements the client sends: payments.insert, cars.insert/update,
\* broker_commissions.update and brokers.update (markCommissionPaid)
ClientStatements ==
    { <<"payments", "INSERT">>, <<"cars", "INSERT">>, <<"cars", "UPDATE">>,
      <<"broker_commissions", "UPDATE">>, <<"brokers", "UPDATE">> }

\* all subsequences of a sequence of statements, order kept
RECURSIVE SubSeqs(_)
SubSeqs(q) ==
    IF q = << >> THEN { << >> }
    ELSE LET rest == SubSeqs(Tail(q))
         IN rest \cup { <<Head(q)>> \o r : r \in rest }

\* the events of cars that have an AFTER row trigger in the revision
CarsTriggerEvents ==
    IF rev \in {"app_tsx", "part_003", "functions_fix_07"}
      THEN {"UPDATE"} ELSE {"INSERT", "UPDATE"}

\* a broker_commissions trigger that writes cars
TriggerBody_reentrant(table, tgop) ==
    CASE table = "payments" /\ tgop = "INSERT" ->
            << <<"cars", "UPDATE">>, <<"broker_commissions", "INSERT">>,
               <<"brokers", "UPDATE">> >>
      [] table = "cars" /\ tgop \in CarsTriggerEvents ->
            << <<"broker_commissions", "DELETE">>, <<"broker_commissions", "INSERT">> >>
      [] table = "broker_commissions" -> << <<"cars", "UPDATE">> >>
      [] OTHER -> << >>

\* the statements in the bodies of the row triggers of (table, tgop):
\* handle_car_sale on payments, the recorder on cars; update_updated_at on
\* cars and brokers issues none, broker_commissions has no trigger
TriggerBody(table, tgop) ==
    CASE table = "payments" /\ tgop = "INSERT" ->
            << <<"cars", "UPDATE">>, <<"broker_commissions", "INSERT">>,
               <<"brokers", "UPDATE">> >>
      [] table = "cars" /\ tgop \in CarsTriggerEvents ->
            << <<"broker_commissions", "DELETE">>, <<"broker_commissions", "INSERT">> >>
      [] OTHER -> << >>

InitTriggers ==
    /\ InitDb
    /\ calcIn = NullRow
    /\ calcOut = NotCalculated
    /\ chain = << >>
    /\ steps = MaxSteps

\* the client sends a request; the previous one has returned
StartStatement(table, tgop) ==
    /\ chain = << >>
    /\ chain' = << [table |-> table, tgop |-> tgop, path |-> {}] >>
    /\ Step([op |-> "statement", car |-> 0, role |-> "owner", ok |-> TRUE])
    /\ UNCHANGED <<rev, uniqueCarId, dbVars, today, uiVars, calcIn, calcOut>>

\* the database executes the innermost pending statement and, nested in it,
\* queues what the row triggers of its table issue
ExecStatement ==
    /\ chain # << >>
    /\ LET e == Head(chain) IN
        /\ Cardinality(e.path) < MaxDepth
        /\ \E body \in SubSeqs(TriggerBody(e.table, e.tgop)) :
              chain' = [i \in 1..Len(body) |->
                          [table |-> body[i][1], tgop |-> body[i][2],
                           path |-> e.path \cup {e.table}]] \o Tail(chain)
    /\ UNCHANGED <<rev, uniqueCarId, dbVars, today, uiVars, calcIn, calcOut,
                   lastOp, steps>>

NextTriggers ==
    \/ \E st \in ClientStatements : StartStatement(st[1], st[2])
    \/ ExecStatement

SpecTriggers == InitTriggers /\ [][NextTriggers]_vars /\ WF_vars(ExecStatement)

----------------------------------------------------------------------------
(* Properties of the commission ledger *)

\* the sum of f over a finite set
SumOf(S, f(_)) ==
    LET RECURSIVE Sum(_)
        Sum(T) == IF T = {} THEN 0
                  ELSE LET x == CHOOSE y \in T : TRUE IN f(x) + Sum(T \ {x})
    IN Sum(S)

\* C1: whenever no markCommissionPaid call is in flight, every broker's
\* total_commission_due equals the sum of the amounts of that broker's unpaid
\* commission records.
C1_DueEqualsUnpaidSum ==
    (\A s \in Sessions : pc[s] = "idle") =>
        \A b \in Brokers :
            brokers[b].total_commission_due =
                SumOf({r \in commissions : r.broker_id = b /\ ~r.is_paid},
                      LAMBDA r : r.commission_amount)

\* C2: markCommissionPaid on a record that is unpaid sets is_paid and stamps
\* paid_date with the current date, and lowers the broker's
\* total_commission_due by exactly the record's amount and raises
\* total_commission_paid by exactly that amount.
C2_MarkPaidAdjustsExactly ==
    [][\A s \in Sessions :
        /\ (pc[s] = "idle" /\ pc'[s] = "totals" /\ args'[s].fresh) =>
              \E x \in commissions' :
                  x.id = args'[s].id /\ x.is_paid /\ x.paid_date = today
        /\ (pc[s] = "totals" /\ pc'[s] = "idle" /\ result'[s] = "ok" /\ args[s].fresh) =>
              LET b == args[s].broker_id
              IN /\ brokers'[b].total_commission_due =
                        brokers[b].total_commission_due - args[s].amount
                 /\ brokers'[b].total_commission_paid =
                        brokers[b].total_commission_paid + args[s].amount
      ]_vars

\* C3: a markCommissionPaid call on a record that is already paid reports
\* AlreadyPaid and leaves the record and both broker totals unchanged.
C3_SecondCallChangesNothing ==
    [][\A s \in Sessions :
        /\ (pc[s] = "idle" /\ pc'[s] = "totals" /\ ~args'[s].fresh) =>
              commissions' = commissions
        /\ (pc[s] = "totals" /\ pc'[s] = "idle" /\ ~args[s].fresh) =>
              brokers' = brokers /\ result'[s] = "AlreadyPaid"
      ]_vars

\* C4: when the broker-total step of markCommissionPaid fails after the
\* record was marked paid, the record is unpaid again when the call returns.
C4_FailedTotalsStepRollsBack ==
    [][\A s \in Sessions :
        (pc[s] = "totals" /\ pc'[s] = "idle" /\ result'[s] = "brokerError"
            /\ args[s].fresh) =>
              \A x \in commissions' : x.id = args[s].id => ~x.is_paid
      ]_vars

\* C5: when two sessions have each completed markCommissionPaid on two
\* different unpaid records of one broker, the broker's total_commission_paid
\* has grown by the sum of both amounts and total_commission_due has shrunk by
\* the same sum (both totals start at zero and nothing else writes them).
C5_NoLostUpdate ==
    \A s1, s2 \in Sessions :
        ( /\ s1 # s2
          /\ pc[s1] = "idle" /\ pc[s2] = "idle"
          /\ result[s1] = "ok" /\ result[s2] = "ok"
          /\ args[s1].fresh /\ args[s2].fresh
          /\ args[s1].id # args[s2].id
          /\ args[s1].broker_id = args[s2].broker_id ) =>
            LET b == args[s1].broker_id
                both == args[s1].amount + args[s2].amount
            IN /\ brokers[b].total_commission_paid = both
               /\ brokers[b].total_commission_due = 0 - both

\* C6: a request of a caller who is not an owner changes neither a
\* commission record's paid flag nor a broker's totals.
C6_OnlyOwnerChangesLedger ==
    [][(steps' # steps /\ lastOp'.role # "owner") =>
          /\ brokers' = brokers
          /\ \A r \in commissions : \A r2 \in commissions' :
                r2.id = r.id => r2.is_paid = r.is_paid
      ]_vars

C8_PaidRecordImmutable ==
    [][(/\ steps' # steps
        /\ lastOp'.op = "car_update"
        /\ cars'[lastOp'.car].broker_id # NULL
        /\ GtZero(cars'[lastOp'.car].broker_commission_value)) =>
          \A r \in commissions :
              (r.is_paid /\ r.car_id = lastOp'.car) =>
                  \E r2 \in commissions' :
                      /\ r2.id = r.id
                      /\ r2.commission_amount = r.commission_amount
                      /\ r2.broker_id = r.broker_id
      ]_vars

\* C9: an update of a car that removes the broker or makes the commission
\* policy invalid does not delete the car's paid commission record.
C9_PaidRecordNeverDeleted ==
    [][(/\ steps' # steps
        /\ lastOp'.op = "car_update"
        /\ \/ cars'[lastOp'.car].broker_id = NULL
           \/ ~GtZero(cars'[lastOp'.car].broker_commission_value)) =>
          \A r \in commissions :
              (r.is_paid /\ r.car_id = lastOp'.car) =>
                  \E r2 \in commissions' : r2.id = r.id
      ]_vars

\* C10: once a car's commission record is paid, no later step leaves the car
\* with an unpaid record and no paid one.
C10_PaidIsTerminal ==
    [][\A c \in DOMAIN cars :
          (\E r \in commissions : r.car_id = c /\ r.is_paid) =>
              ~ /\ \E r2 \in commissions' : r2.car_id = c /\ ~r2.is_paid
                /\ ~\E r2 \in commissions' : r2.car_id = c /\ r2.is_paid
      ]_vars

\* C11: in every reachable state each car has at most one commission record.
C11_AtMostOneRecordPerCar ==
    \A c \in DOMAIN cars : Cardinality(RecordsOfCar(commissions, c)) <= 1

\* the commission the specification defines for a price and a policy, as an
\* unrounded numeric: 0 without a type, without a value or with a value <= 0,
\* the value for "fixed", price * value / 100 for "percentage"
computeCommission(price, type, value) ==
    IF type = NULL \/ ~GtZero(value) THEN 0
    ELSE IF type = "fixed" THEN FromDecimal2(value)
    ELSE IF type = "percentage" THEN Percentage(price, value)
    ELSE 0

\* C12: after any step that changes a car's broker, commission type,
\* commission value, purchase price or status, every unpaid commission record
\* of that car carries the car's broker and the commission computed from the
\* car's price and policy.
C12_UnpaidRecordReflectsCar ==
    [][\A c \in DOMAIN cars :
          cars'[c] # cars[c] =>
              \A r \in commissions' :
                  (r.car_id = c /\ ~r.is_paid) =>
                      /\ r.broker_id = cars'[c].broker_id
                      /\ r.commission_amount =
                            ToDecimal2(computeCommission(cars'[c].purchase_price,
                                                         cars'[c].broker_commission_type,
                                                         cars'[c].broker_commission_value))
      ]_vars

\* C13: in every reachable state no unpaid commission record exists for a car
\* whose broker_id is null (removing a car's broker deletes its unpaid record).
C13_NoUnpaidRecordWithoutBroker ==
    \A r \in commissions :
        (~r.is_paid /\ r.car_id \in DOMAIN cars) => cars[r.car_id].broker_id # NULL

\* C14: a car update that leaves the broker set but takes the computed
\* commission from a positive amount to 0 leaves no unpaid commission record
\* for that car.
C14_ZeroCommissionDeletesUnpaid ==
    [][(/\ steps' # steps
        /\ lastOp'.op = "car_update" /\ lastOp'.ok
        /\ cars'[lastOp'.car].broker_id # NULL
        /\ computeCommission(cars[lastOp'.car].purchase_price,
                             cars[lastOp'.car].broker_commission_type,
                             cars[lastOp'.car].broker_commission_value) > 0
        /\ computeCommission(cars'[lastOp'.car].purchase_price,
                             cars'[lastOp'.car].broker_commission_type,
                             cars'[lastOp'.car].broker_commission_value) = 0) =>
          ~\E r \in commissions' : r.car_id = lastOp'.car /\ ~r.is_paid
      ]_vars

\* C15: a committed insert or update of a car that has a broker and a computed
\* commission above 0, made while no commission record exists for the car,
\* leaves exactly one record for it, with the car's broker, the computed
\* amount and is_paid = FALSE, whatever the car's sale status.
C15_MissingRecordIsCreated ==
    [][(/\ steps' # steps
        /\ lastOp'.op \in {"car_insert", "car_update"} /\ lastOp'.ok
        /\ cars'[lastOp'.car].broker_id # NULL
        /\ computeCommission(cars'[lastOp'.car].purchase_price,
                             cars'[lastOp'.car].broker_commission_type,
                             cars'[lastOp'.car].broker_commission_value) > 0
        /\ RecordsOfCar(commissions, lastOp'.car) = {}) =>
          /\ Cardinality(RecordsOfCar(commissions', lastOp'.car)) = 1
          /\ \A r \in RecordsOfCar(commissions', lastOp'.car) :
                /\ r.broker_id = cars'[lastOp'.car].broker_id
                /\ r.commission_amount =
                     ToDecimal2(computeCommission(
                         cars'[lastOp'.car].purchase_price,
                         cars'[lastOp'.car].broker_commission_type,
                         cars'[lastOp'.car].broker_commission_value))
                /\ ~r.is_paid
      ]_vars

\* the rows the calculator contract speaks of: a fixed or percentage policy
\* with a commission value above 0 and a purchase price of at least 0
ValidPolicy(car) ==
    /\ car.broker_commission_type \in {"fixed", "percentage"}
    /\ GtZero(car.broker_commission_value)
    /\ car.purchase_price >= 0

\* the versions of calculate_broker_commission that return 0 for a car
\* without broker before they look at the policy
ChecksBroker(by) == by \in {"definitive_fix", "final_definitive_fix_12", "functions_fix_07"}

C17_DegradesToZero ==
    (/\ calcOut.by # "none"
     /\ \/ calcIn.broker_commission_type = NULL
        \/ calcIn.broker_commission_value = NullNum
        \/ calcIn.broker_commission_value <= 0) =>
        calcOut.amount = 0

C21_RecordReflectsFinalRow ==
    [][(/\ steps' # steps
        /\ lastOp.op = "car_update" /\ lastOp.ok
        /\ lastOp'.op = "car_update" /\ lastOp'.ok
        /\ lastOp'.car = lastOp.car) =>
          \A r \in commissions' :
              (r.car_id = lastOp'.car /\ ~r.is_paid) =>
                  /\ r.broker_id = cars'[lastOp'.car].broker_id
                  /\ r.commission_amount =
                       ToDecimal2(computeCommission(
                           cars'[lastOp'.car].purchase_price,
                           cars'[lastOp'.car].broker_commission_type,
                           cars'[lastOp'.car].broker_commission_value))
      ]_vars

\* C22: a car that is sold stays sold (and stays in the table) under every
\* payment, car edit and ledger operation, so its status goes from available
\* to sold at most once and never back.
C22_SoldIsFinal ==
    [][\A c \in DOMAIN cars :
          cars[c].status = "sold" =>
              c \in DOMAIN cars' /\ cars'[c].status = "sold"
      ]_vars

C22_Witness ==
    /\ lastOp.op = "car_update" /\ lastOp.ok
    /\ lastOp.car \in DOMAIN cars
    /\ cars[lastOp.car].status = "sold"

\* C23: a recorded payment of type full_purchase that references a car leaves
\* that car sold; a payment of any other type, or without a car, leaves every
\* car and every commission record unchanged.
C23_OnlyFullPurchaseSells ==
    [][(/\ steps' # steps
        /\ lastOp'.op \in PaymentTypes /\ lastOp'.ok) =>
          IF lastOp'.op = "full_purchase" /\ lastOp'.car \in DOMAIN cars
            THEN cars'[lastOp'.car].status = "sold"
            ELSE cars' = cars /\ commissions' = commissions
      ]_vars

\* C24: no trigger runs nested in a trigger of its own table (no re-entrant
\* cycle), and every request that was started (a payment insert with the car
\* status update and the reconciliation it sets off, a car insert or update,
\* the two updates of a mark-paid call) eventually has no statement left to
\* execute.
C24_EveryRequestTerminates ==
    /\ [](\A i \in 1..Len(chain) : chain[i].table \notin chain[i].path)
    /\ (chain # << >>) ~> (chain = << >>)

C24_Witness ==
    /\ Len(chain) >= 1
    /\ chain[1].table = "broker_commissions"
    /\ chain[1].path = {"payments", "cars"}

\* C25: in every reachable state every broker's total_commission_due is at
\* least 0.
C25_DueNeverNegative ==
    \A b \in Brokers : brokers[b].total_commission_due >= 0

\* C26: whenever no markCommissionPaid call is in flight, every broker's
\* total_commission_paid equals the sum of the amounts of that broker's paid
\* commission records.
C26_PaidEqualsPaidSum ==
    (\A s \in Sessions : pc[s] = "idle") =>
        \A b \in Brokers :
            brokers[b].total_commission_paid =
                SumOf({r \in commissions : r.broker_id = b /\ r.is_paid},
                      LAMBDA r : r.commission_amount)

\* C27: when markCommissionPaid flags a record paid, the broker and the amount
\* it goes on to adjust the totals with are the broker_id and the
\* commission_amount the record has in the table at that moment.
C27_TotalsUseCurrentRecord ==
    [][\A s \in Sessions :
          (pc[s] = "idle" /\ pc'[s] = "totals") =>
              \E r \in commissions' :
                  /\ r.id = args'[s].id
                  /\ r.broker_id = args'[s].broker_id
                  /\ r.commission_amount = args'[s].amount
      ]_vars

\* C28: in every reachable state every commission record has a
\* commission_amount above 0.
C28_RecordAmountPositive ==
    \A r \in commissions : GtZero(r.commission_amount)

C30_DueRaisedOnceWithRecord ==
    [][(/\ steps' # steps
        /\ lastOp'.op \in {"car_insert", "car_update"} \cup PaymentTypes) =>
          \A b \in Brokers :
              brokers'[b].total_commission_due > brokers[b].total_commission_due =>
                  /\ \E r \in commissions' \ commissions :
                        /\ r.broker_id = b
                        /\ r.car_id = lastOp'.car
                        /\ r.commission_amount =
                             brokers'[b].total_commission_due
                               - brokers[b].total_commission_due
                        /\ ~r.is_paid
                  /\ lastOp'.car \in DOMAIN cars
                  /\ cars[lastOp'.car].status = "available"
                  /\ cars'[lastOp'.car].status = "sold"
      ]_vars

====
